---- MODULE Spec2Model ----
(***************************************************************************)
(* Model of tools/generate-json.py: the index generator of the Blender     *)
(* package manager add-on.  One run of main() is                           *)
(*   parse_args -> [parse_existing_index] -> parse_addons -> update ->     *)
(*   write_index_file                                                      *)
(* over a file system holding index.json and the addons directory.         *)
(*                                                                         *)
(* Python values are records [t, v]: t is the Python type, v the sequence  *)
(* of the pieces of the value (the characters of a string are kept as one  *)
(* or more string pieces, the items of a tuple/list/set as strings).       *)
(* A dict is a function from its keys; a missing key is a key outside      *)
(* DOMAIN.  An exception is the field exc of a result record.              *)
(***************************************************************************)
EXTENDS Integers, Sequences, FiniteSets, TLC

\* ---------------------------------------------------------------- bounds
MaxEntries == 2      \* entries of the scanned directory
MaxStmts == 3        \* top-level statements of a source file (SpecUnit)
MaxMerges == 2       \* --merge runs counted after a run without --merge

\* ------------------------------------------------------- program constants
REQUIRED_KEYS == {"name", "blender"}
RECOMMENDED_KEYS == {"author", "description", "location", "wiki_url", "category"}
CURRENT_SCHEMA_VERSION == 1

\* ----------------------------------------------------------- Python values
Str(s) == [t |-> "str", v |-> <<s>>]
PyTuple(s) == [t |-> "tuple", v |-> s]
PyList(s) == [t |-> "list", v |-> s]
PySet(s) == [t |-> "set", v |-> s]

EmptyDict == [k \in {} |-> Str("")]
EmptyMap == [k \in {} |-> EmptyDict]

\* dict.update(new) applied to a copy of old: the keys of new replace, whole
\* value by whole value, the keys of old.
DictUpdateFieldwise(old, new) ==
    [k \in (DOMAIN old) \cup (DOMAIN new) |->
        IF k \in DOMAIN new /\ k \in DOMAIN old
        THEN [f \in (DOMAIN old[k]) \cup (DOMAIN new[k]) |->
                 IF f \in DOMAIN new[k] THEN new[k][f] ELSE old[k][f]]
        ELSE IF k \in DOMAIN new THEN new[k] ELSE old[k]]

DictUpdateKeepOld(old, new) ==
    [k \in (DOMAIN old) \cup (DOMAIN new) |->
        IF k \in DOMAIN old THEN old[k] ELSE new[k]]

DictUpdate(old, new) ==
    [k \in (DOMAIN old) \cup (DOMAIN new) |->
        IF k \in DOMAIN new THEN new[k] ELSE old[k]]

\* ------------------------------------------------------------------- JSON
\* json.dump of a value and json.load of the text: a tuple is written as an
\* array and read back as a list; str and list come back as they were; a set
\* is not serializable (TypeError in json.dump).
JsonSerializable(x) == x.t \in {"str", "tuple", "list"}

JsonValue(x) == IF x.t = "tuple" THEN [t |-> "list", v |-> x.v] ELSE x

JsonEntry(e) == [k \in DOMAIN e |-> JsonValue(e[k])]

JsonAddons(m) == [id \in DOMAIN m |-> JsonEntry(m[id])]

AddonsSerializable(m) ==
    \A id \in DOMAIN m : \A k \in DOMAIN m[id] : JsonSerializable(m[id][k])

\* ------------------------------------------------------- results, exceptions
NoExc == "none"

\* A value returned by parse_blinfo / blinfo_to_json: kind "dict" with the
\* mapping d, kind "none" for None, kind "int" for a literal that is no
\* mapping; exc names the exception raised instead of returning.
RetNone == [exc |-> NoExc, kind |-> "none", d |-> EmptyDict]
RetDict(d) == [exc |-> NoExc, kind |-> "dict", d |-> d]
RetInt == [exc |-> NoExc, kind |-> "int", d |-> EmptyDict]
Raise(e) == [exc |-> e, kind |-> "none", d |-> EmptyDict]

\* ------------------------------------------------------------ source files
\* An expression on the right-hand side of an assignment: lit says whether
\* ast.literal_eval accepts it, val is the value it evaluates to.
Lit(d) == [lit |-> TRUE, val |-> RetDict(d)]
LitNone == [lit |-> TRUE, val |-> RetNone]
LitInt == [lit |-> TRUE, val |-> RetInt]
Call == [lit |-> FALSE, val |-> RetNone]

\* Assignment targets: ast.Name has an id, ast.Attribute has none.
Name(id) == [node |-> "Name", id |-> id]
Attribute(attr) == [node |-> "Attribute", id |-> attr]

\* A top-level statement.  For cls = "Assign" and "AnnAssign" targets and
\* value are the statement's own; for cls = "If" they are those of the
\* assignment nested in its body; for cls = "Expr" there is no target.
Stmt(cls, targets, value) == [cls |-> cls, targets |-> targets, value |-> value]

\* A file of the directory: kind "module" parses to body; the other kinds
\* are files that cannot be opened, read as text, or parsed.
Module(body) == [kind |-> "module", body |-> body]
Unopenable == [kind |-> "unopenable", body |-> <<>>]
NonText == [kind |-> "nontext", body |-> <<>>]
BadSyntax == [kind |-> "syntaxerror", body |-> <<>>]

DeclGood == [k \in {"name", "blender"} |->
    IF k = "name" THEN Str("Good") ELSE PyTuple(<<"2", "78">>)]
DeclFull == [k \in {"name", "blender", "author", "download_url", "source"} |->
    CASE k = "name" -> Str("Full")
      [] k = "blender" -> PyList(<<"2", "79">>)
      [] k = "author" -> Str("me")
      [] k = "download_url" -> Str("http://elsewhere/full.zip")
      [] OTHER -> Str("declared")]
DeclNoName == [k \in {"blender", "author"} |->
    IF k = "blender" THEN PyTuple(<<"2", "78">>) ELSE Str("me")]
DeclSet == [k \in {"name", "blender", "tags"} |->
    CASE k = "name" -> Str("Tagged")
      [] k = "blender" -> PyTuple(<<"2", "78">>)
      [] OTHER -> PySet(<<"mesh">>)]

\* getattr(body.targets[0], 'id', '')
TargetId(target) == IF target.node = "Name" THEN target.id ELSE ""

\* The three tests of the loop body of parse_blinfo (lines 82-89).
IsBlInfoAssign(body) ==
    /\ body.cls = "Assign"
    /\ Len(body.targets) = 1
    /\ TargetId(body.targets[1]) = "bl_info"

\* ast.literal_eval: the value of a literal, ValueError for anything else.
literal_eval(value) == IF value.lit THEN value.val ELSE Raise("ValueError")

\* The for loop of parse_blinfo over tree.body (lines 81-94).
RECURSIVE ScanBodyLast(_)
ScanBodyLast(stmts) ==
    IF stmts = <<>> THEN RetNone
    ELSE LET n == Len(stmts) IN
         IF IsBlInfoAssign(stmts[n]) THEN literal_eval(stmts[n].value)
         ELSE ScanBodyLast(SubSeq(stmts, 1, n - 1))

RECURSIVE ScanBody(_)
ScanBody(stmts) ==
    IF stmts = <<>> THEN RetNone
    ELSE IF IsBlInfoAssign(Head(stmts)) THEN literal_eval(Head(stmts).value)
    ELSE ScanBody(Tail(stmts))

\* parse_blinfo(addon_fname), on the file the name refers to.
parse_blinfo_DecodeErrorRaised(file) ==
    CASE file.kind = "unopenable" -> Raise("OSError")
      [] file.kind = "nontext" -> Raise("UnicodeDecodeError")
      [] file.kind = "syntaxerror" -> RetNone
      [] OTHER -> ScanBody(file.body)

parse_blinfo(file) ==
    CASE file.kind = "unopenable" -> Raise("OSError")      \* open() is outside any try
      [] file.kind = "nontext" -> RetNone                   \* UnicodeDecodeError caught
      [] file.kind = "syntaxerror" -> RetNone               \* SyntaxError caught
      [] OTHER -> ScanBody(file.body)

\* ----------------------------------------------------------- blinfo_to_json
missing_req_keys(bl_info) == {key \in REQUIRED_KEYS : key \notin DOMAIN bl_info.d}
missing_rec_keys(bl_info) == {key \in RECOMMENDED_KEYS : key \notin DOMAIN bl_info.d}

Augmentation(source, url) ==
    [k \in {"download_url", "source"} |-> IF k = "download_url" THEN url ELSE Str(source)]

blinfo_to_json_KeepDeclared(bl_info, addon_id, source, url) ==
    IF bl_info.kind = "int" THEN Raise("TypeError")
    ELSE IF missing_req_keys(bl_info) # {} THEN RetNone
    ELSE RetDict(DictUpdate(Augmentation(source, url), bl_info.d))

blinfo_to_json_NoCheck(bl_info, addon_id, source, url) ==
    IF bl_info.kind = "int" THEN Raise("TypeError")
    ELSE RetDict(DictUpdate(bl_info.d, Augmentation(source, url)))

blinfo_to_json(bl_info, addon_id, source, url) ==
    IF bl_info.kind = "int" THEN Raise("TypeError")        \* 'name' in 5
    ELSE IF missing_req_keys(bl_info) # {} THEN RetNone
    ELSE RetDict(DictUpdate(bl_info.d, Augmentation(source, url)))

\* -------------------------------------------------------------- iter_addons
\* A directory entry: name = <<base, ext>> as os.path.splitext splits it, dot
\* says whether the name starts with '.', file is the entry itself or, for a
\* directory, its __init__.py (has_init says whether that exists).
Item(dot, base, ext, is_dir, has_init, file) ==
    [dot |-> dot, name |-> <<base, ext>>, is_dir |-> is_dir,
     has_init |-> has_init, file |-> file]

Unit(addon_id, file, ext) == [addon_id |-> addon_id, file |-> file, ext |-> ext]

RECURSIVE iter_addons_NoHiddenTest(_)
iter_addons_NoHiddenTest(items) ==
    IF items = <<>> THEN <<>>
    ELSE LET item == Head(items)
             rest == iter_addons_NoHiddenTest(Tail(items))
             base == item.name[1]
         IN IF item.is_dir
            THEN IF ~item.has_init THEN rest
                 ELSE <<Unit(base, item.file, ".zip")>> \o rest
            ELSE <<Unit(base, item.file, ".py")>> \o rest

RECURSIVE iter_addons(_)
iter_addons(items) ==
    IF items = <<>> THEN <<>>
    ELSE LET item == Head(items)
             rest == iter_addons(Tail(items))
             base == item.name[1]
         IN IF item.dot THEN rest
            ELSE IF item.is_dir
            THEN IF ~item.has_init THEN rest
                 ELSE <<Unit(base, item.file, ".zip")>> \o rest
            ELSE <<Unit(base, item.file, ".py")>> \o rest

\* ------------------------------------------------------------- parse_addons
\* urllib.parse.urljoin(base, rel) for a relative file name rel: the last
\* path segment of base (base.leaf, "" when base ends with '/') is replaced
\* by rel.
urljoin(base, rel) == [t |-> "str", v |-> <<base.dir>> \o rel]

Result(exc, val) == [exc |-> exc, val |-> val]

RECURSIVE ParseLoop(_, _, _, _)
ParseLoop(units, addons_source, addons_base_url, json_data) ==
    IF units = <<>> THEN Result(NoExc, json_data)
    ELSE LET u == Head(units)
             bl_info == parse_blinfo(u.file)
             url == urljoin(addons_base_url, <<u.addon_id, u.ext>>)
             as_json == blinfo_to_json(bl_info, u.addon_id, addons_source, url)
         IN IF bl_info.exc # NoExc THEN Result(bl_info.exc, json_data)
            ELSE IF bl_info.kind = "none"
            THEN ParseLoop(Tail(units), addons_source, addons_base_url, json_data)
            ELSE IF as_json.exc # NoExc THEN Result(as_json.exc, json_data)
            ELSE IF as_json.kind = "none"
            THEN ParseLoop(Tail(units), addons_source, addons_base_url, json_data)
            ELSE ParseLoop(Tail(units), addons_source, addons_base_url,
                           DictUpdate(json_data,
                                      [id \in {u.addon_id} |-> as_json.d]))

\* parse_addons(addons_dir, ...): os.scandir raises OSError on a directory
\* that cannot be listed.
parse_addons(addons_dir, addons_source, addons_base_url) ==
    IF ~addons_dir.ok THEN Result("OSError:scandir", EmptyMap)
    ELSE ParseLoop(iter_addons(addons_dir.items), addons_source,
                   addons_base_url, EmptyMap)

\* ---------------------------------------------------------------- index.json
\* The file index.json: absent, not JSON ("malformed": also an empty or a
\* partly written file), or a JSON object doc whose keys 'schema-version'
\* and 'addons' may each be missing (has_version, has_addons).
JsonDoc(has_version, version, has_addons, addons) ==
    [has_version |-> has_version, version |-> version,
     has_addons |-> has_addons, addons |-> addons]
NoDoc == JsonDoc(FALSE, 0, FALSE, EmptyMap)

Absent == [kind |-> "absent", doc |-> NoDoc]
Malformed == [kind |-> "malformed", doc |-> NoDoc]
JsonFile(doc) == [kind |-> "json", doc |-> doc]

parse_existing_index(file) ==
    CASE file.kind = "absent" -> Result("FileNotFoundError", EmptyMap)
      [] file.kind = "malformed" -> Result("JSONDecodeError", EmptyMap)
      [] ~file.doc.has_version \/ file.doc.version # CURRENT_SCHEMA_VERSION
            -> Result("ValueError", EmptyMap)
      [] ~file.doc.has_addons -> Result("KeyError", EmptyMap)
      [] OTHER -> Result(NoExc, file.doc.addons)

\* final_json of main (lines 201-204).
FinalJsonNextVersion(addon_data) ==
    [schema_version |-> CURRENT_SCHEMA_VERSION + 1, addons |-> addon_data]

FinalJson(addon_data) ==
    [schema_version |-> CURRENT_SCHEMA_VERSION, addons |-> addon_data]

\* write_index_file: open(..., 'w') truncates the file, json.dump writes the
\* document piece by piece and raises TypeError at the first value it cannot
\* serialize, leaving a file that is not JSON.
write_index_file(file, data) ==
    IF AddonsSerializable(data.addons)
    THEN Result(NoExc, JsonFile(JsonDoc(TRUE, data.schema_version, TRUE,
                                        JsonAddons(data.addons))))
    ELSE Result("TypeError", Malformed)

\* ------------------------------------------------------------ the inputs
Sources == {"internal", "community"}
Bases == {[dir |-> "http://localhost:8000/", leaf |-> ""],
          [dir |-> "http://host/", leaf |-> "addons"]}

SrcGood == Module(<<Stmt("Assign", <<Name("bl_info")>>, Lit(DeclGood))>>)
SrcFull == Module(<<Stmt("Expr", <<>>, LitNone),
                    Stmt("Assign", <<Name("bl_info")>>, Lit(DeclFull))>>)
SrcNoName == Module(<<Stmt("Assign", <<Name("bl_info")>>, Lit(DeclNoName))>>)
SrcNoBlInfo == Module(<<Stmt("Assign", <<Name("x")>>, Lit(DeclGood))>>)
SrcCall == Module(<<Stmt("Assign", <<Name("bl_info")>>, Call)>>)
SrcSet == Module(<<Stmt("Assign", <<Name("bl_info")>>, Lit(DeclSet))>>)

\* The entries a scanned directory is made of.
Items ==
    {Item(FALSE, "a", ".py", FALSE, FALSE, f) :
        f \in {SrcGood, SrcNoName, SrcNoBlInfo, BadSyntax, NonText,
               SrcCall, SrcSet, Unopenable}}
    \cup {Item(FALSE, "a", "", TRUE, TRUE, SrcFull),
          Item(FALSE, "a", "", TRUE, FALSE, Unopenable)}
    \cup {Item(FALSE, "b", ".py", FALSE, FALSE, f) : f \in {SrcFull, SrcNoName}}
    \cup {Item(TRUE, ".h", ".py", FALSE, FALSE, SrcGood),
          Item(TRUE, ".git", "", TRUE, TRUE, SrcFull)}

\* The listings os.scandir can give: at most MaxEntries entries, no two with
\* the same name, in the order scandir yields them.
Listings ==
    {l \in UNION {[1..n -> Items] : n \in 0..MaxEntries} :
        \A i, j \in 1..Len(l) : i # j => l[i].name # l[j].name}

Directories ==
    {[ok |-> TRUE, items |-> l] : l \in Listings}
    \cup {[ok |-> FALSE, items |-> <<>>]}

\* Entries of an index.json found before the first run.
EntryForeign == [k \in {"blender", "location", "download_url", "source"} |->
    CASE k = "blender" -> PyList(<<"2", "70">>)
      [] k = "location" -> Str("View3D")
      [] k = "download_url" -> Str("http://old/a.py")
      [] OTHER -> Str("hand-written")]
EntryOld == [k \in {"name", "blender", "location", "download_url", "source"} |->
    CASE k = "name" -> Str("Old")
      [] k = "blender" -> PyList(<<"2", "70">>)
      [] k = "location" -> Str("View3D")
      [] k = "download_url" -> Str("http://old/a.py")
      [] OTHER -> Str("internal")]

InitialIndexes ==
    {Absent, Malformed,
     JsonFile(JsonDoc(FALSE, 0, TRUE, EmptyMap)),
     JsonFile(JsonDoc(TRUE, CURRENT_SCHEMA_VERSION + 1, TRUE,
                      [id \in {"a"} |-> EntryOld])),
     JsonFile(JsonDoc(TRUE, CURRENT_SCHEMA_VERSION, FALSE, EmptyMap)),
     JsonFile(JsonDoc(TRUE, CURRENT_SCHEMA_VERSION, TRUE, EmptyMap)),
     JsonFile(JsonDoc(TRUE, CURRENT_SCHEMA_VERSION, TRUE,
                      [id \in {"a"} |-> EntryForeign])),
     JsonFile(JsonDoc(TRUE, CURRENT_SCHEMA_VERSION, TRUE,
                      [id \in {"a", "c"} |-> EntryOld]))}

\* ------------------------------------------------------------------ state
VARIABLES
    pc,              \* where main is: idle, load, scan, update, write, done, aborted
    args,            \* the parsed command line: merge, source, base
    addons_dir,      \* the directory args.dir names
    index,           \* the file index.json
    index0,          \* index.json as it was when the run started
    addon_data,      \* main's addon_data
    new_addon_data,  \* main's new_addon_data
    exc,             \* the exception that ended the run, and the call that raised it
    fresh,           \* the last completed run without --merge, while every
                     \* completed run since was a --merge run with its flags
                     \* (merges counts them, up to MaxMerges)
    u_pc, u_file, u_args, u_bl_info, u_as_json   \* one unit, in SpecUnit

vars == <<pc, args, addons_dir, index, index0, addon_data, new_addon_data,
          exc, fresh, u_pc, u_file, u_args, u_bl_info, u_as_json>>
unit_vars == <<u_pc, u_file, u_args, u_bl_info, u_as_json>>
main_vars == <<pc, args, addons_dir, index, index0, addon_data,
               new_addon_data, exc, fresh>>

NoArgs == [merge |-> FALSE, source |-> "", base |-> [dir |-> "", leaf |-> ""]]
NoExcInfo == [type |-> NoExc, at |-> ""]
NoFresh == [valid |-> FALSE, source |-> "", base |-> [dir |-> "", leaf |-> ""],
            addons |-> EmptyMap, merges |-> 0]
NoUnitArgs == [addon_id |-> "", ext |-> "", source |-> "",
               base |-> [dir |-> "", leaf |-> ""]]

UnitOff ==
    /\ u_pc = "off"
    /\ u_file = Module(<<>>)
    /\ u_args = NoUnitArgs
    /\ u_bl_info = RetNone
    /\ u_as_json = RetNone

Init ==
    /\ pc = "idle"
    /\ args = NoArgs
    /\ addons_dir \in Directories
    /\ index \in InitialIndexes
    /\ index0 = index
    /\ addon_data = EmptyMap
    /\ new_addon_data = EmptyMap
    /\ exc = NoExcInfo
    /\ fresh = NoFresh
    /\ UnitOff

\* ------------------------------------------------------------------- main
\* parser.parse_args() (lines 180-190): a new run starts.
ParseArgs(merge, source, base) ==
    /\ pc = "idle"
    /\ pc' = "load"
    /\ args' = [merge |-> merge, source |-> source, base |-> base]
    /\ index0' = index
    /\ UNCHANGED <<addons_dir, index, addon_data, new_addon_data, exc, fresh>>
    /\ UNCHANGED unit_vars

\* Lines 192-196.
LoadExisting ==
    /\ pc = "load"
    /\ LET r == parse_existing_index(index) IN
       IF ~args.merge
       THEN /\ addon_data' = EmptyMap
            /\ pc' = "scan"
            /\ exc' = exc
       ELSE IF r.exc # NoExc
       THEN /\ addon_data' = addon_data
            /\ pc' = "aborted"
            /\ exc' = [type |-> r.exc, at |-> "parse_existing_index"]
       ELSE /\ addon_data' = r.val
            /\ pc' = "scan"
            /\ exc' = exc
    /\ UNCHANGED <<args, addons_dir, index, index0, new_addon_data, fresh>>
    /\ UNCHANGED unit_vars

\* Line 198.
ParseAddonsTruncating ==
    /\ pc = "scan"
    /\ LET r == parse_addons(addons_dir, args.source, args.base) IN
       IF r.exc # NoExc
       THEN /\ pc' = "aborted"
            /\ exc' = [type |-> r.exc, at |-> "parse_addons"]
            /\ new_addon_data' = new_addon_data
            /\ index' = Malformed
       ELSE /\ pc' = "update"
            /\ exc' = exc
            /\ new_addon_data' = r.val
            /\ index' = index
    /\ UNCHANGED <<args, addons_dir, index0, addon_data, fresh>>
    /\ UNCHANGED unit_vars

ParseAddons ==
    /\ pc = "scan"
    /\ LET r == parse_addons(addons_dir, args.source, args.base) IN
       IF r.exc # NoExc
       THEN /\ pc' = "aborted"
            /\ exc' = [type |-> r.exc, at |-> "parse_addons"]
            /\ new_addon_data' = new_addon_data
       ELSE /\ pc' = "update"
            /\ exc' = exc
            /\ new_addon_data' = r.val
    /\ UNCHANGED <<args, addons_dir, index, index0, addon_data, fresh>>
    /\ UNCHANGED unit_vars

\* Line 199.
UpdateFieldwise ==
    /\ pc = "update"
    /\ addon_data' = DictUpdateFieldwise(addon_data, new_addon_data)
    /\ pc' = "write"
    /\ UNCHANGED <<args, addons_dir, index, index0, new_addon_data, exc, fresh>>
    /\ UNCHANGED unit_vars

UpdateKeepOld ==
    /\ pc = "update"
    /\ addon_data' = DictUpdateKeepOld(addon_data, new_addon_data)
    /\ pc' = "write"
    /\ UNCHANGED <<args, addons_dir, index, index0, new_addon_data, exc, fresh>>
    /\ UNCHANGED unit_vars

Update ==
    /\ pc = "update"
    /\ addon_data' = DictUpdate(addon_data, new_addon_data)
    /\ pc' = "write"
    /\ UNCHANGED <<args, addons_dir, index, index0, new_addon_data, exc, fresh>>
    /\ UNCHANGED unit_vars

\* Lines 201-207.
WriteIndexFile ==
    /\ pc = "write"
    /\ LET w == write_index_file(index, FinalJson(addon_data)) IN
       /\ index' = w.val
       /\ IF w.exc # NoExc
          THEN /\ pc' = "aborted"
               /\ exc' = [type |-> w.exc, at |-> "write_index_file"]
               /\ fresh' = NoFresh
          ELSE /\ pc' = "done"
               /\ exc' = exc
               /\ fresh' = IF ~args.merge
                           THEN [valid |-> TRUE, source |-> args.source,
                                 base |-> args.base, addons |-> addon_data,
                                 merges |-> 0]
                           ELSE IF fresh.valid /\ fresh.source = args.source
                                   /\ fresh.base = args.base
                           THEN [fresh EXCEPT !.merges =
                                    IF @ < MaxMerges THEN @ + 1 ELSE @]
                           ELSE NoFresh
    /\ UNCHANGED <<args, addons_dir, index0, addon_data, new_addon_data>>
    /\ UNCHANGED unit_vars

\* The process ends; its memory is gone, the files stay.
Exit ==
    /\ pc \in {"done", "aborted"}
    /\ pc' = "idle"
    /\ args' = NoArgs
    /\ addon_data' = EmptyMap
    /\ new_addon_data' = EmptyMap
    /\ exc' = NoExcInfo
    /\ index0' = index
    /\ UNCHANGED <<addons_dir, index, fresh>>
    /\ UNCHANGED unit_vars

Next ==
    \/ \E merge \in BOOLEAN, source \in Sources, base \in Bases :
          ParseArgs(merge, source, base)
    \/ LoadExisting
    \/ ParseAddons
    \/ Update
    \/ WriteIndexFile
    \/ Exit

Spec == Init /\ [][Next]_vars

\* --------------------------------------------- one unit, step by step
\* The body of the loop of parse_addons (lines 133-144) on one file, over
\* every source of at most MaxStmts top-level statements.
Exprs == {Lit(DeclGood), Lit(DeclFull), Lit(DeclNoName), LitNone, LitInt, Call}

Stmts ==
    {Stmt("Assign", <<Name("bl_info")>>, e) : e \in Exprs}
    \cup {Stmt("Assign", <<Name("x")>>, Lit(DeclFull)),
          Stmt("Assign", <<Name("x"), Name("bl_info")>>, Lit(DeclFull)),
          Stmt("Assign", <<Attribute("bl_info")>>, Lit(DeclFull)),
          Stmt("AnnAssign", <<Name("bl_info")>>, Lit(DeclFull)),
          Stmt("If", <<Name("bl_info")>>, Lit(DeclFull)),
          Stmt("Expr", <<>>, LitNone)}

UnitFiles ==
    {Module(b) : b \in UNION {[1..n -> Stmts] : n \in 0..MaxStmts}}
    \cup {Unopenable, NonText, BadSyntax}

InitUnit ==
    /\ pc = "off"
    /\ args = NoArgs
    /\ addons_dir = [ok |-> TRUE, items |-> <<>>]
    /\ index = Absent
    /\ index0 = Absent
    /\ addon_data = EmptyMap
    /\ new_addon_data = EmptyMap
    /\ exc = NoExcInfo
    /\ fresh = NoFresh
    /\ u_pc = "start"
    /\ u_file \in UnitFiles
    /\ u_args \in [addon_id : {"a"}, ext : {".py", ".zip"},
                   source : Sources, base : Bases]
    /\ u_bl_info = RetNone
    /\ u_as_json = RetNone

\* Lines 133-136.
UnitParseBlinfo ==
    /\ u_pc = "start"
    /\ u_bl_info' = parse_blinfo(u_file)
    /\ u_pc' = IF u_bl_info'.exc # NoExc THEN "raised"
               ELSE IF u_bl_info'.kind = "none" THEN "skipped"
               ELSE "parsed"
    /\ UNCHANGED <<u_file, u_args, u_as_json>>
    /\ UNCHANGED main_vars

\* Lines 138-144.
UnitBlinfoToJson ==
    /\ u_pc = "parsed"
    /\ u_as_json' = blinfo_to_json(u_bl_info, u_args.addon_id, u_args.source,
                                   urljoin(u_args.base,
                                           <<u_args.addon_id, u_args.ext>>))
    /\ u_pc' = IF u_as_json'.exc # NoExc THEN "raised"
               ELSE IF u_as_json'.kind = "none" THEN "rejected"
               ELSE "stored"
    /\ UNCHANGED <<u_file, u_args, u_bl_info>>
    /\ UNCHANGED main_vars

NextUnit == UnitParseBlinfo \/ UnitBlinfoToJson

SpecUnit == InitUnit /\ [][NextUnit]_vars

\* ================================================================ claims
Prior == index0.doc.addons
Written == index.doc.addons
Units == iter_addons(addons_dir.items)
ScanDone == pc \in {"update", "write", "done"}
HasRequired(e) == \A key \in {"name", "blender"} : key \in DOMAIN e

\* A top-level statement that is an assignment with the single target bl_info.
SingleBlInfoTarget(s) == s.cls = "Assign" /\ s.targets = <<Name("bl_info")>>
Matches(body) == {i \in 1..Len(body) : SingleBlInfoTarget(body[i])}
FirstMatch(body) == CHOOSE i \in Matches(body) : \A j \in Matches(body) : i <= j

\* The four soft failures, read off the file itself.
SoftFailure(file) ==
    \/ file.kind \in {"nontext", "syntaxerror"}
    \/ /\ file.kind = "module"
       /\ \/ Matches(file.body) = {}
          \/ LET value == file.body[FirstMatch(file.body)].value IN
             value.lit /\ value.val.kind = "dict" /\ ~HasRequired(value.val.d)
\* A unit whose declaration is a literal mapping with the required keys.
Succeeds(file) ==
    /\ file.kind = "module"
    /\ Matches(file.body) # {}
    /\ LET value == file.body[FirstMatch(file.body)].value IN
       value.lit /\ value.val.kind = "dict" /\ HasRequired(value.val.d)

\* C1: a completed --merge run writes the prior index's addons overlaid with
\* the scan's entries: every ID of the scan has exactly the scan's entry, every
\* other ID of the prior index its prior entry, and there are no other IDs;
\* index.json holds that mapping as JSON.
C1_MergeOverlay ==
    (pc = "done" /\ args.merge) =>
        /\ DOMAIN addon_data = (DOMAIN Prior) \cup (DOMAIN new_addon_data)
        /\ \A id \in DOMAIN new_addon_data : addon_data[id] = new_addon_data[id]
        /\ \A id \in (DOMAIN Prior) \ (DOMAIN new_addon_data) :
              addon_data[id] = Prior[id]
        /\ index.kind = "json" /\ Written = JsonAddons(addon_data)
C1_Witness ==
    /\ pc = "done" /\ args.merge
    /\ \E id \in (DOMAIN Prior) \cap (DOMAIN new_addon_data) :
          (DOMAIN Prior[id]) \ (DOMAIN new_addon_data[id]) # {}
    /\ (DOMAIN Prior) \ (DOMAIN new_addon_data) # {}

\* C2 as stated: every entry of every document written by a completed run has
\* the keys name and blender, whatever schema-valid index.json was merged.
C2_Original ==
    pc = "done" => \A id \in DOMAIN Written : HasRequired(Written[id])
\* C2 amended: every entry the scan produced has both keys in the written
\* document, and every entry of the document has them when the run is without
\* --merge or every entry of the loaded index had them.
C2_RequiredKeys ==
    pc = "done" =>
        /\ \A id \in DOMAIN new_addon_data : HasRequired(Written[id])
        /\ (~args.merge \/ \A id \in DOMAIN Prior : HasRequired(Prior[id]))
              => \A id \in DOMAIN Written : HasRequired(Written[id])
C2_Witness ==
    /\ pc = "done" /\ args.merge
    /\ new_addon_data # EmptyMap
    /\ (DOMAIN Prior) \ (DOMAIN new_addon_data) # {}
    /\ \A id \in DOMAIN Prior : HasRequired(Prior[id])

ListedFatal ==
    \/ exc.at = "parse_existing_index" /\ exc.type \in {"ValueError", "JSONDecodeError"}
    \/ exc.at = "parse_addons" /\ exc.type = "OSError:scandir"
\* C4: a run that aborts on a schema-version mismatch or malformed JSON of
\* the existing index, or on an inaccessible directory, has not reached
\* write_index_file, and index.json is as it was when the run started.
C4_FatalNoWrite ==
    (pc = "aborted" /\ ListedFatal) =>
        exc.at # "write_index_file" /\ index = index0
C4_Witness ==
    /\ pc = "aborted"
    /\ exc.type = "OSError:scandir"
    /\ args.merge
    /\ index.kind = "json" /\ Written # EmptyMap

\* C5: parse_blinfo never raises: it returns the declaration mapping or None.
C5_NeverRaises ==
    u_pc # "start" => u_bl_info.exc = NoExc /\ u_bl_info.kind \in {"dict", "none"}

C7_Augment ==
    (/\ u_pc \in {"raised", "rejected", "stored"}
     /\ u_bl_info.exc = NoExc /\ u_bl_info.kind = "dict"
     /\ HasRequired(u_bl_info.d)) =>
        /\ u_pc = "stored"
        /\ u_as_json.exc = NoExc /\ u_as_json.kind = "dict"
        /\ DOMAIN u_as_json.d = (DOMAIN u_bl_info.d) \cup {"download_url", "source"}
        /\ \A k \in (DOMAIN u_bl_info.d) \ {"download_url", "source"} :
              u_as_json.d[k] = u_bl_info.d[k]
        /\ u_as_json.d["download_url"] =
              urljoin(u_args.base, <<u_args.addon_id, u_args.ext>>)
        /\ u_as_json.d["source"] = Str(u_args.source)
C7_Witness ==
    /\ u_pc = "stored"
    /\ {"download_url", "source"} \subseteq DOMAIN u_bl_info.d
    /\ u_bl_info.d["download_url"] # u_as_json.d["download_url"]
    /\ missing_rec_keys(u_bl_info) # {}

\* C8: after a completed run without --merge, every completed --merge run on
\* the same directory with the same --source and --base has the addons
\* mapping of that first run, in memory and in index.json.
C8_MergeIdempotent ==
    (pc = "done" /\ args.merge /\ fresh.valid) =>
        /\ addon_data = fresh.addons
        /\ index.kind = "json" /\ Written = JsonAddons(fresh.addons)
C8_Witness ==
    /\ pc = "done" /\ args.merge /\ fresh.valid
    /\ fresh.merges = MaxMerges
    /\ fresh.addons # EmptyMap

\* A directory all of whose entries have a name starting with '.'.
OnlyHidden ==
    addons_dir.ok /\ \A i \in 1..Len(addons_dir.items) : addons_dir.items[i].dot
\* C9 as stated: for a directory with only hidden entries the addons mapping
\* of the document the run produces is empty.
C9_Original ==
    (pc = "done" /\ OnlyHidden) => Written = EmptyMap
\* C9 amended: for such a directory the scan produces no entry, so the written
\* mapping is empty without --merge and is the prior index's mapping with
\* --merge.
C9_OnlyHidden ==
    /\ (ScanDone /\ OnlyHidden) => new_addon_data = EmptyMap
    /\ (pc = "done" /\ OnlyHidden) =>
          Written = (IF args.merge THEN Prior ELSE EmptyMap)
C9_Witness ==
    /\ pc = "done" /\ OnlyHidden /\ args.merge
    /\ Len(addons_dir.items) >= 1
    /\ Prior # EmptyMap

\* C10: on a source that parses, parse_blinfo's result is decided by the first
\* top-level statement that is an assignment with the single target bl_info:
\* it is the literal value of that statement, and None when there is none;
\* nested and several-target assignments and later matches do not count.
C10_FirstTopLevel ==
    (u_pc # "start" /\ u_file.kind = "module") =>
        IF Matches(u_file.body) = {}
        THEN u_bl_info = RetNone
        ELSE u_bl_info = literal_eval(u_file.body[FirstMatch(u_file.body)].value)
C10_Witness ==
    /\ u_pc = "parsed"
    /\ Len(u_file.body) = 3
    /\ u_file.body[1].cls = "If"
    /\ SingleBlInfoTarget(u_file.body[2]) /\ SingleBlInfoTarget(u_file.body[3])
    /\ u_file.body[2].value # u_file.body[3].value

====
